---- MODULE Spec2Model ----
(***************************************************************************)
(* Document ingestion, chunk indexing, retrieval and theme identification  *)
(* of the document research backend (src/backend/app/core).                *)
(*                                                                         *)
(* Three specifications share the state:                                   *)
(*   Spec       - the ingestion pipeline on two documents: upload,         *)
(*                process_document (stepwise, several calls in flight),    *)
(*                add_document, both delete_document operations, search,   *)
(*                and a process crash followed by a restart.               *)
(*   SpecChunk  - one document with varied file contents, to exercise the  *)
(*                extraction fallback chain and the page of every chunk.   *)
(*   SpecTheme  - theme identification (document-driven and query-driven)  *)
(*                over an indexed corpus of three documents.               *)
(***************************************************************************)
EXTENDS Integers, Sequences, FiniteSets, TLC

\* ------------------------------------------------------------------ bounds
MaxPages == 2        \* pages of an uploaded file (rasterized / pdfinfo)
MaxCalls == 2        \* process_document calls over a run
MaxAdds == 2         \* add_document calls over a run
MaxEmb == 2          \* embeddings lie on a line 0..MaxEmb
MaxHits == 3         \* hits returned by one similarity search
ChunkLines == 2      \* lines per chunk (the splitter's chunk size)
DistStep == 60       \* distance between neighbouring embeddings, in hundredths
MaxThemeRuns == 2    \* identify_themes calls over a run
MaxQueries == 1      \* process_query calls over a run
MaxCites == 2        \* process_document calls of the citation service

\* ------------------------------------------------------- program constants
MinDirectChars == 100     \* len(text.strip()) < 100 -> OCR
CharsPerPage == 3000      \* page_count = max(1, len(text) // 3000)
MIN_THEME_DOCUMENTS == 2  \* config.MIN_THEME_DOCUMENTS
THEME_SIMILARITY_THRESHOLD == 75  \* config.THEME_SIMILARITY_THRESHOLD, in hundredths

DocSeq == <<"d1", "d2", "d3">>
DocIds == {DocSeq[i] : i \in 1 .. Len(DocSeq)}
TaskIds == {1, 2}

Max(a, b) == IF a >= b THEN a ELSE b
Min(a, b) == IF a <= b THEN a ELSE b

\* ------------------------------------------------------------------- text
\* A text is a sequence of lines.  A line is a page marker "--- Page n ---",
\* a line that starts with "--- Page " whose rest int() rejects, a blank
\* line or any other line of text.
Marker(n) == [kind |-> "marker", n |-> n]
BadMarker == [kind |-> "badmarker", n |-> 0]
TextLine == [kind |-> "text", n |-> 0]
Blank == [kind |-> "blank", n |-> 0]
OtherLine == [kind |-> "text", n |-> 1]   \* a line of text of other words
Word(n) == [kind |-> "text", n |-> n]     \* a line of text holding word n

\* "\n".join(f"--- Page {i+1} ---\n{page_text}\n" for each page image)
RECURSIVE OcrLines(_)
OcrLines(n) ==
  IF n = 0 THEN << >>
  ELSE OcrLines(n - 1) \o <<Marker(n), TextLine, Blank>>

\* ------------------------------------------------------- extraction chain
\* An extraction result: ok, the text, the page count and the strategies
\* invoked, in order.
Failure(tried) == [ok |-> FALSE, lines |-> << >>, page_count |-> 0, tried |-> tried]
Success(lines, pages, tried) ==
  [ok |-> TRUE, lines |-> lines, page_count |-> pages, tried |-> tried]

\* _process_pdf_with_ocr: rasterize, OCR every page, one marker per page.
ProcessPdfWithOcrOnePage(file, ok, tried) ==
  IF ok THEN Success(OcrLines(file.pages), 1, tried \o <<"ocr">>)
  ELSE Failure(tried \o <<"ocr">>)
ProcessPdfWithOcr(file, ok, tried) ==
  IF ok THEN Success(OcrLines(file.pages), file.pages, tried \o <<"ocr">>)
  ELSE Failure(tried \o <<"ocr">>)

\* _process_pdf: pdftotext, then pdfinfo; OCR when the text is short or a
\* tool fails.  An OCR failure inside the try block is caught by the same
\* except clause, which calls the OCR path a second time.
ProcessPdfNoFallback(file, o, tried) ==
  IF ~o.pdftotext THEN Failure(tried \o <<"pdftotext">>)
  ELSE IF ~o.pdfinfo THEN Failure(tried \o <<"pdftotext", "pdfinfo">>)
  ELSE Success(file.lines, file.info,
               tried \o <<"pdftotext", "pdfinfo">>)
ProcessPdf(file, o, tried) ==
  IF ~o.pdftotext
  THEN ProcessPdfWithOcr(file, o.ocr1, tried \o <<"pdftotext">>)
  ELSE IF file.chars < MinDirectChars
  THEN LET first == ProcessPdfWithOcr(file, o.ocr1, tried \o <<"pdftotext">>)
       IN  IF first.ok THEN first
           ELSE ProcessPdfWithOcr(file, o.ocr2, first.tried)
  ELSE IF ~o.pdfinfo
  THEN ProcessPdfWithOcr(file, o.ocr1, tried \o <<"pdftotext", "pdfinfo">>)
  ELSE Success(file.lines, file.info,
               tried \o <<"pdftotext", "pdfinfo">>)

\* _process_image: OCR of the one image; always one page.
ProcessImage(file, o) ==
  IF o.ocr1 THEN Success(<<TextLine>>, 1, <<"image_ocr">>)
  ELSE Failure(<<"image_ocr">>)

\* _process_word: native extraction (docx2txt / antiword); on failure
\* LibreOffice converts to PDF and the PDF path runs on the result.
ProcessWord(file, o) ==
  IF o.native
  THEN Success(file.lines, Max(1, file.chars \div CharsPerPage),
               <<"word_native">>)
  ELSE IF ~o.convert THEN Failure(<<"word_native", "convert">>)
  ELSE ProcessPdf(file, o, <<"word_native", "convert">>)

\* _process_text: the file as it is, page count estimated from its length.
ProcessText(file, o) ==
  IF o.read
  THEN Success(file.lines, Max(1, file.chars \div CharsPerPage),
               <<"read">>)
  ELSE Failure(<<"read">>)

\* The dispatch of process_document on file_type.
Extract(file, o) ==
  IF file.type = "pdf" THEN ProcessPdf(file, o, << >>)
  ELSE IF file.type \in {"png", "jpg", "jpeg", "tiff", "bmp"} THEN ProcessImage(file, o)
  ELSE IF file.type \in {"doc", "docx"} THEN ProcessWord(file, o)
  ELSE ProcessText(file, o)

\* Outcomes of the external tools during one extraction: whether each
\* invocation succeeds (ocr1, ocr2: the first and the second OCR run).  Only
\* the tools of the file's chain are drawn.
PdfTools == {"pdf", "doc", "docx"}
WordTools == {"doc", "docx"}
Outcomes(type) ==
  [pdftotext : IF type \in PdfTools THEN BOOLEAN ELSE {FALSE},
   pdfinfo : IF type \in PdfTools THEN BOOLEAN ELSE {FALSE},
   ocr1 : IF type \in {"txt"} THEN {FALSE} ELSE BOOLEAN,
   ocr2 : IF type \in PdfTools THEN BOOLEAN ELSE {FALSE},
   native : IF type \in WordTools THEN BOOLEAN ELSE {FALSE},
   convert : IF type \in WordTools THEN BOOLEAN ELSE {FALSE},
   read : IF type \in {"txt"} THEN BOOLEAN ELSE {FALSE}]

\* ------------------------------------------------------------------ state
VARIABLES
  uploads,        \* doc id -> the uploaded file (UPLOAD_DIR), while it exists
  document,       \* doc id -> the metadata dict object of that document
  documents,      \* DocumentProcessor.documents: the ids stored (values alias document[id])
  metadata_file,  \* document_metadata.json: id -> record as last dumped
  textfile,       \* doc id -> lines of processed/<id>/extracted_text.txt
  tasks,          \* process_document calls in flight
  calls,          \* doc id -> process_document calls made
  runs,           \* doc id -> extraction chains started
  clock,          \* datetime.now(), as a logical clock
  vector_db,      \* the Chroma collection: a set of entries
  next_eid,       \* the next id Chroma generates for an entry
  chunk_metadata, \* VectorDatabaseService.chunk_metadata: id -> chunk ids
  adding,         \* the add_document call in flight
  adds,           \* add_document calls made
  results,        \* the list returned by the last search
  search_deleted, \* the ids already deleted when that search ran
  deleted,        \* ids whose deletion through the endpoint succeeded
  crashed         \* whether the process has crashed and restarted

\* ThemeProcessor.themes (themes.json), the last identify_themes call of
\* either processor (its chunk list, labels, clusters and response), the
\* number of such calls and the number of theme ids generated.
VARIABLES themes, run, theme_runs, next_uuid
theme_vars == <<themes, run, theme_runs, next_uuid>>

\* The last call of similarity_search_with_score (whether it returned, and
\* the scored hits the index holds for it), the last QueryResponse of
\* process_query and QueryProcessor.query_history (query_history.json).
VARIABLES index_call, query_response, query_history
query_vars == <<index_call, query_response, query_history>>

\* EnhancedCitationService.citation_metadata (citation_metadata.json) and
\* the number of its process_document calls.
VARIABLES citation_metadata, cite_runs
cite_vars == <<citation_metadata, cite_runs>>

ingest_vars == <<uploads, document, documents, metadata_file, textfile, tasks,
                 calls, runs, clock, vector_db, next_eid, chunk_metadata, adding,
                 adds, results, search_deleted, deleted, crashed>>

\* Python dict operations on functions whose domain is the key set.
Put(f, k, v) == [x \in (DOMAIN f) \cup {k} |-> IF x = k THEN v ELSE f[x]]
Del(f, k) == [x \in (DOMAIN f) \ {k} |-> f[x]]
EmptyDict == [x \in {} |-> x]

RECURSIVE SumOver(_, _)
SumOver(f, S) ==
  IF S = {} THEN 0
  ELSE LET x == CHOOSE y \in S : TRUE IN f[x] + SumOver(f, S \ {x})

\* Python's None where an integer may stand ("page_count": None, page_info = None).
None == -1

\* ------------------------------------------------------- document records
\* The dict built by upload_document.
UploadedRecord ==
  [status |-> "processing", page_count |-> None, processed_path |-> FALSE,
   processed_time |-> 0, error_message |-> FALSE]

\* process_document, lines 93-97: the updates of a successful run.
ProcessedRecord(doc, page_count, now) ==
  [doc EXCEPT !.status = "processed", !.processed_path = TRUE,
              !.page_count = page_count, !.processed_time = now]

\* process_document, lines 108-109: the updates of a failed run.
ErrorRecordNoMessage(doc) == [doc EXCEPT !.status = "error"]
ErrorRecord(doc) == [doc EXCEPT !.status = "error", !.error_message = TRUE]

\* ------------------------------------------------------- process_document
NoFile == [type |-> "", lines |-> << >>, chars |-> 0, pages |-> 0, info |-> 0]
\* dump: what the call's json.dump has serialised into its open file object.
IdleTask ==
  [doc |-> "", pc |-> "idle", file |-> NoFile, res |-> Failure(<< >>),
   dump |-> EmptyDict]
NewTask(d, f) ==
  [doc |-> d, pc |-> "extract", file |-> f, res |-> Failure(<< >>),
   dump |-> EmptyDict]

AllFail ==
  [pdftotext |-> FALSE, pdfinfo |-> FALSE, ocr1 |-> FALSE, ocr2 |-> FALSE,
   native |-> FALSE, convert |-> FALSE, read |-> FALSE]

FreeTask == CHOOSE t \in TaskIds : tasks[t].pc = "idle" /\ \A u \in TaskIds : tasks[u].pc = "idle" => t <= u

\* upload_document: a fresh id, the file saved, the dict built and
\* process_document scheduled as a background task.
FreshId == DocSeq[CHOOSE i \in 1 .. Len(DocSeq) :
                    calls[DocSeq[i]] = 0 /\ \A j \in 1 .. i - 1 : calls[DocSeq[j]] > 0]
Upload(d, f) ==
  /\ \E x \in DocIds : calls[x] = 0
  /\ d = FreshId
  /\ d \notin DOMAIN document
  /\ SumOver(calls, DOMAIN calls) < MaxCalls
  /\ \E t \in TaskIds : tasks[t].pc = "idle"
  /\ uploads' = Put(uploads, d, f)
  /\ document' = Put(document, d, UploadedRecord)
  /\ tasks' = [tasks EXCEPT ![FreeTask] = NewTask(d, f)]
  /\ calls' = [calls EXCEPT ![d] = @ + 1]
  /\ UNCHANGED <<theme_vars, query_vars, cite_vars, documents, metadata_file, textfile, runs, clock, vector_db,
                 next_eid, chunk_metadata, adding, adds, results, search_deleted, deleted, crashed>>

\* process_document(document) called again with a dict that exists.
\* Nothing in process_document looks at the calls already in flight.
Resubmit(d) ==
  /\ d \in DOMAIN document
  /\ d \in DOMAIN uploads
  /\ SumOver(calls, DOMAIN calls) < MaxCalls
  /\ \E t \in TaskIds : tasks[t].pc = "idle"
  /\ tasks' = [tasks EXCEPT ![FreeTask] = NewTask(d, uploads[d])]
  /\ calls' = [calls EXCEPT ![d] = @ + 1]
  /\ UNCHANGED <<theme_vars, query_vars, cite_vars, uploads, document, documents, metadata_file, textfile, runs,
                 clock, vector_db, next_eid, chunk_metadata, adding, adds, results, search_deleted,
                 deleted, crashed>>

\* Lines 76-90: the extraction chain of the file type; on success
\* extracted_text.txt is written.  Every tool fails on a file that has been
\* removed.
ExtractResults(file, present) ==
  {Extract(file, o) : o \in IF present THEN Outcomes(file.type) ELSE {AllFail}}
RunExtract(t, res) ==
  /\ tasks[t].pc = "extract"
  /\ res \in ExtractResults(tasks[t].file, tasks[t].doc \in DOMAIN uploads)
  /\ tasks' = [tasks EXCEPT ![t].res = res,
                             ![t].pc = IF res.ok THEN "update" ELSE "error"]
  /\ textfile' = IF res.ok THEN Put(textfile, tasks[t].doc, res.lines)
                 ELSE textfile
  /\ runs' = [runs EXCEPT ![tasks[t].doc] = @ + 1]
  /\ UNCHANGED <<theme_vars, query_vars, cite_vars, uploads, document, documents, metadata_file, calls, clock,
                 vector_db, next_eid, chunk_metadata, adding, adds, results, search_deleted,
                 deleted, crashed>>

\* Lines 92-100: the dict is updated in place and stored under its id.
UpdateMetadata(t) ==
  /\ tasks[t].pc = "update"
  /\ LET d == tasks[t].doc
     IN  /\ document' = Put(document, d,
                            ProcessedRecord(document[d], tasks[t].res.page_count,
                                            clock + 1))
         /\ documents' = documents \cup {d}
  /\ clock' = clock + 1
  /\ tasks' = [tasks EXCEPT ![t].pc = "save"]
  /\ UNCHANGED <<theme_vars, query_vars, cite_vars, uploads, metadata_file, textfile, calls, runs, vector_db,
                 next_eid, chunk_metadata, adding, adds, results, search_deleted, deleted, crashed>>

\* Lines 106-110: the failure handler updates the dict and stores it.
RecordError(t) ==
  /\ tasks[t].pc = "error"
  /\ LET d == tasks[t].doc
     IN  /\ document' = Put(document, d,
                            ErrorRecord(document[d]))
         /\ documents' = documents \cup {d}
  /\ tasks' = [tasks EXCEPT ![t].pc = "save"]
  /\ UNCHANGED <<theme_vars, query_vars, cite_vars, uploads, metadata_file, textfile, calls, runs, clock, vector_db,
                 next_eid, chunk_metadata, adding, adds, results, search_deleted, deleted, crashed>>

\* The tools a file's chain invokes: subprocess.run (pdftotext, pdfinfo,
\* antiword, libreoffice), convert_from_path and pytesseract.  None of the
\* calls is given a timeout: a tool that never returns blocks the call of
\* process_document for good.  A text file is read without any tool.
InvokesTool(file) == file.type # "txt"
ToolHangs(t) ==
  /\ tasks[t].pc = "extract"
  /\ tasks[t].doc \in DOMAIN uploads
  /\ InvokesTool(tasks[t].file)
  /\ tasks' = [tasks EXCEPT ![t].pc = "hung"]
  /\ UNCHANGED <<theme_vars, query_vars, cite_vars, uploads, document, documents,
                 metadata_file, textfile, calls, runs, clock, vector_db, next_eid,
                 chunk_metadata, adding, adds, results, search_deleted, deleted,
                 crashed>>

\* _save_documents (lines 101 and 111): the whole dict is dumped; the call returns.
Dump == [d \in documents |-> document[d]]
SaveDocuments(t) ==
  /\ tasks[t].pc = "save"
  /\ metadata_file' = Dump
  /\ tasks' = [tasks EXCEPT ![t] = IdleTask]
  /\ UNCHANGED <<theme_vars, query_vars, cite_vars, uploads, document, documents, textfile, calls, runs, clock,
                 vector_db, next_eid, chunk_metadata, adding, adds, results, search_deleted,
                 deleted, crashed>>

\* _save_documents, lines 52-58, step by step.  No lock is held and the
\* file is written in place: open(..., 'w') truncates it, json.dump
\* serialises the dict as it is then into the file object, and leaving the
\* with block writes those bytes from offset 0.  metadata_file is the file
\* as _load_documents reads it: a file that does not parse loads as {}.
SaveDocumentsOpen(t) ==
  /\ tasks[t].pc = "save"
  /\ metadata_file' = EmptyDict
  /\ tasks' = [tasks EXCEPT ![t].pc = "flush", ![t].dump = Dump]
  /\ UNCHANGED <<theme_vars, query_vars, cite_vars, uploads, document, documents,
                 textfile, calls, runs, clock, vector_db, next_eid, chunk_metadata,
                 adding, adds, results, search_deleted, deleted, crashed>>

\* What the file loads as after dump has been written over file from
\* offset 0.  A dump that holds every record of the file is at least as
\* long and replaces it; behind a dump with fewer records the end of the
\* longer text stays and the file no longer parses; the lengths of two
\* texts with different records are not ordered.
Overlays(dump, file) ==
  IF DOMAIN file \subseteq DOMAIN dump THEN {dump}
  ELSE IF DOMAIN dump \subseteq DOMAIN file THEN {EmptyDict}
  ELSE {dump, EmptyDict}
SaveDocumentsClose(t, out) ==
  /\ tasks[t].pc = "flush"
  /\ out \in Overlays(tasks[t].dump, metadata_file)
  /\ metadata_file' = out
  /\ tasks' = [tasks EXCEPT ![t] = IdleTask]
  /\ UNCHANGED <<theme_vars, query_vars, cite_vars, uploads, document, documents,
                 textfile, calls, runs, clock, vector_db, next_eid, chunk_metadata,
                 adding, adds, results, search_deleted, deleted, crashed>>

\* ----------------------------------------------------------- add_document
\* RecursiveCharacterTextSplitter.split_text, as a size policy on lines:
\* consecutive groups of ChunkLines lines.
NumChunks(lines) == (Len(lines) + ChunkLines - 1) \div ChunkLines
ChunkAt(lines, i) ==
  SubSeq(lines, i * ChunkLines + 1, Min(Len(lines), (i + 1) * ChunkLines))

\* Lines 120-128: the first line of the chunk that starts with "--- Page "
\* and parses as an integer; a line that does not parse is passed over.
RECURSIVE PageInfo(_)
PageInfo(chunk) ==
  IF chunk = << >> THEN None
  ELSE IF Head(chunk).kind = "marker" THEN Head(chunk).n
  ELSE PageInfo(Tail(chunk))

Truthy(n) == n # None /\ n # 0

\* Lines 131-132 and 146: the estimate from the chunk's position when the
\* chunk holds no marker and page_count is set; "page_info or 1".
EstimatedPage(i, n, page_count) == Min(1 + ((i * page_count) \div n), page_count)
ChunkPage(chunk, i, n, page_count) ==
  LET marked == PageInfo(chunk)
      info == IF marked = None /\ Truthy(page_count)
              THEN EstimatedPage(i, n, page_count)
              ELSE marked
  IN  IF Truthy(info) THEN info ELSE 1

\* Line 135: f"{doc_id}_chunk_{i}"; FromCounter numbers the chunks by the
\* index's running counter.
ChunkIdFromCounter(d, i) == <<d, next_eid + i>>
ChunkId(d, i) == <<d, i>>

\* Lines 139-152: the entry of chunk i, under the id Chroma generates.
Entry(d, doc, lines, i, eid, emb) ==
  [eid |-> eid, chunk_id |-> ChunkId(d, i), document_id |-> d,
   page |-> ChunkPage(ChunkAt(lines, i), i, NumChunks(lines), doc.page_count),
   chunk_index |-> i, embedding |-> emb]

IdleAdd == [pc |-> "idle", doc |-> "", chunk_ids |-> << >>]

\* Lines 91-158: the checks, the split and the insertion into the index.
\* A call that fails a check returns False and changes nothing.
AddDocumentIndex(d, E) ==
  /\ adding.pc = "idle"
  /\ adds < MaxAdds
  /\ d \in documents
  /\ document[d].status = "processed"
  /\ document[d].processed_path
  /\ d \in DOMAIN textfile
  /\ LET lines == textfile[d]
         n == NumChunks(lines)
     IN  \E emb \in [0 .. n - 1 -> E] :
           /\ vector_db' = vector_db \cup
                {Entry(d, document[d], lines, i, next_eid + i, emb[i]) : i \in 0 .. n - 1}
           /\ next_eid' = next_eid + n
           /\ adding' = [pc |-> "registry", doc |-> d,
                         chunk_ids |-> [k \in 1 .. n |-> ChunkId(d, k - 1)]]
  /\ adds' = adds + 1
  /\ UNCHANGED <<theme_vars, query_vars, cite_vars, uploads, document, documents, metadata_file, textfile, tasks,
                 calls, runs, clock, chunk_metadata, results, search_deleted, deleted, crashed>>

\* Lines 160-165: the chunk registry is updated and saved.
AddDocumentRegistry ==
  /\ adding.pc = "registry"
  /\ chunk_metadata' = Put(chunk_metadata, adding.doc, adding.chunk_ids)
  /\ adding' = IdleAdd
  /\ UNCHANGED <<theme_vars, query_vars, cite_vars, uploads, document, documents, metadata_file, textfile, tasks,
                 calls, runs, clock, vector_db, next_eid, adds, results, search_deleted, deleted,
                 crashed>>

\* -------------------------------------- VectorDatabaseService.delete_document
SeqRange(q) == {q[k] : k \in 1 .. Len(q)}

\* Lines 232-252: the registered chunk ids are deleted from the index, then
\* the registry entry.  Without registered chunks the call returns False.
VectorDelete(d) ==
  /\ d \in DOMAIN chunk_metadata
  /\ chunk_metadata[d] # << >>
  /\ vector_db' = {e \in vector_db : e.chunk_id \notin SeqRange(chunk_metadata[d])}
  /\ chunk_metadata' = Del(chunk_metadata, d)
  /\ UNCHANGED <<theme_vars, query_vars, cite_vars, uploads, document, documents, metadata_file, textfile, tasks,
                 calls, runs, clock, next_eid, adding, adds, results, search_deleted, deleted,
                 crashed>>

\* ----------------------------------------- DocumentProcessor.delete_document
\* The endpoint DELETE /{document_id} calls this method and nothing else.
\* The uploaded file goes first; os.path.exists(None) raises when
\* processed_path is still None, and the handler returns False with the
\* record kept; otherwise the processed directory and the record go and the
\* store is dumped.
DeleteDocument(d) ==
  /\ d \in documents
  /\ uploads' = Del(uploads, d)
  /\ IF document[d].processed_path
     THEN /\ textfile' = Del(textfile, d)
          /\ documents' = documents \ {d}
          /\ metadata_file' = [x \in documents \ {d} |-> document[x]]
          /\ deleted' = deleted \cup {d}
     ELSE UNCHANGED <<textfile, documents, metadata_file, deleted>>
  /\ UNCHANGED <<theme_vars, query_vars, cite_vars, document, tasks, calls, runs, clock, vector_db, next_eid,
                 chunk_metadata, adding, adds, results, search_deleted, crashed>>

\* ------------------------------------------------------------------ search
Abs(x) == IF x >= 0 THEN x ELSE -x

\* The distance the index reports, in hundredths.
Distance(a, b) == Abs(a - b) * DistStep

\* similarity_search_with_score: the entries that pass the filter, nearest
\* first (ties in insertion order), at most k of them.
Nearest(S, q) ==
  CHOOSE e \in S : \A f \in S :
    \/ Distance(e.embedding, q) < Distance(f.embedding, q)
    \/ (Distance(e.embedding, q) = Distance(f.embedding, q) /\ e.eid <= f.eid)
RECURSIVE Ranked(_, _, _)
Ranked(S, q, k) ==
  IF S = {} \/ k = 0 THEN << >>
  ELSE LET e == Nearest(S, q) IN <<e>> \o Ranked(S \ {e}, q, k - 1)

\* The hits with their scores, as similarity_search_with_score returns them.
RECURSIVE Scored(_, _)
Scored(entries, q) ==
  IF entries = << >> THEN << >>
  ELSE <<[doc |-> Head(entries), score |-> Distance(Head(entries).embedding, q)]>>
       \o Scored(Tail(entries), q)
SimilaritySearch(ids, q, k) ==
  Scored(Ranked({e \in vector_db : ids = {} \/ e.document_id \in ids}, q, k), q)

\* Lines 199-214: one result per hit.  Scores are in hundredths; the
\* citation "Page N" is held as N, the text of the chunk as its embedding.
RelevanceScoreUnclamped(distance) == 100 - distance
RelevanceScore(distance) == 100 - Min(distance, 100)
FormatHit(doc, score) ==
  [document_id |-> doc.document_id, chunk_id |-> doc.chunk_id,
   citation |-> doc.page, relevance_score |-> RelevanceScore(score),
   embedding |-> doc.embedding]
RECURSIVE FormatHitsFarFirst(_)
FormatHitsFarFirst(hits) ==
  IF hits = << >> THEN << >>
  ELSE FormatHitsFarFirst(Tail(hits))
       \o <<FormatHit(Head(hits).doc, Head(hits).score)>>
RECURSIVE FormatHits(_)
FormatHits(hits) ==
  IF hits = << >> THEN << >>
  ELSE <<FormatHit(Head(hits).doc, Head(hits).score)>> \o FormatHits(Tail(hits))
SearchResults(ids, q, k) == FormatHits(SimilaritySearch(ids, q, k))

\* Lines 184-220: what search returns for a call of the index; the except
\* clause returns the empty list.
SearchReturnPartial(call) == FormatHits(call.hits)
SearchReturn(call) == IF call.ok THEN FormatHits(call.hits) ELSE << >>

\* No search made yet.
QueryStateInit ==
  /\ index_call = [ok |-> TRUE, hits |-> << >>]
  /\ query_response = [query |-> None, results |-> << >>]
  /\ query_history = << >>

\* search(query, document_ids, max_results); an empty or absent
\* document_ids list means no filter.  ok: the embedding of the query and
\* the call of the index succeed.
Search(ids, q, k, ok) ==
  /\ index_call' = [ok |-> ok, hits |-> SimilaritySearch(ids, q, k)]
  /\ results' = SearchReturn(index_call')
  /\ search_deleted' = deleted
  /\ <<index_call', search_deleted'>> # <<index_call, search_deleted>>
  /\ UNCHANGED <<theme_vars, cite_vars, query_response, query_history, uploads, document,
                 documents, metadata_file, textfile, tasks, calls, runs, clock,
                 vector_db, next_eid, chunk_metadata, adding, adds, deleted,
                 crashed>>

\* ------------------------------------------- QueryProcessor.process_query
\* Lines 77-88: one DocumentResult per search result.
DocumentResult(result) ==
  [document_id |-> result.document_id, citation |-> result.citation,
   relevance_score |-> result.relevance_score, embedding |-> result.embedding]
RECURSIVE DocumentResults(_)
DocumentResults(found) ==
  IF found = << >> THEN << >>
  ELSE <<DocumentResult(Head(found))>> \o DocumentResults(Tail(found))

\* process_query(query, document_ids, max_results): the search, the
\* response, and the record appended to the query history and saved.
ProcessQuery(q, ids, k, ok) ==
  /\ Len(query_history) < MaxQueries
  /\ index_call' = [ok |-> ok, hits |-> SimilaritySearch(ids, q, k)]
  /\ results' = SearchReturn(index_call')
  /\ search_deleted' = deleted
  /\ query_response' = [query |-> q, results |-> DocumentResults(results')]
  /\ query_history' = Append(query_history,
                             [query |-> q, document_ids |-> ids,
                              result_count |-> Len(results')])
  /\ UNCHANGED <<theme_vars, cite_vars, uploads, document, documents, metadata_file,
                 textfile, tasks, calls, runs, clock, vector_db, next_eid,
                 chunk_metadata, adding, adds, deleted, crashed>>

\* ------------------------------------------------------------------- crash
\* The process dies and restarts: calls in flight are gone, the stores are
\* loaded from their files, the index is what was persisted.
Crash ==
  /\ ~crashed
  /\ (adding.pc # "idle" \/ \E t \in TaskIds : tasks[t].pc # "idle")
  /\ crashed' = TRUE
  /\ tasks' = [t \in TaskIds |-> IdleTask]
  /\ adding' = IdleAdd
  /\ document' = metadata_file
  /\ documents' = DOMAIN metadata_file
  /\ results' = << >>
  /\ search_deleted' = {}
  /\ UNCHANGED <<theme_vars, query_vars, cite_vars, uploads, metadata_file, textfile, calls, runs, clock, vector_db,
                 next_eid, chunk_metadata, adds, deleted>>

\* ------------------------------------------------------------- clustering
\* DBSCAN(eps, min_samples, metric='precomputed').fit(1 - similarity) on a
\* sequence of embeddings: labels 0, 1, ... in the order the clusters are
\* started (at their first core point), None (-1) for noise.
Neighbours(emb, i, eps) ==
  {j \in 1 .. Len(emb) : Distance(emb[i], emb[j]) <= eps}
CorePoints(emb, eps, min_samples) ==
  {i \in 1 .. Len(emb) : Cardinality(Neighbours(emb, i, eps)) >= min_samples}
\* The core points reached from the points S through core points.
RECURSIVE Grow(_, _, _, _)
Grow(S, emb, eps, core) ==
  LET more == S \cup {j \in core : \E k \in S : j \in Neighbours(emb, k, eps)}
  IN  IF more = S THEN S ELSE Grow(more, emb, eps, core)
SetMin(S) == CHOOSE x \in S : \A y \in S : x <= y
\* The first core point of the cluster of core point i; a cluster's label
\* is the number of clusters started before it.
Seed(emb, i, eps, core) == SetMin(Grow({i}, emb, eps, core))
ClusterLabel(emb, i, eps, core, seeds) ==
  Cardinality({s \in seeds : s < Seed(emb, i, eps, core)})
\* A point that is not a core point joins the first cluster that reaches it.
PointLabel(emb, i, eps, core, seeds) ==
  IF i \in core THEN ClusterLabel(emb, i, eps, core, seeds)
  ELSE IF Neighbours(emb, i, eps) \cap core = {} THEN None
  ELSE SetMin({ClusterLabel(emb, c, eps, core, seeds) :
                 c \in Neighbours(emb, i, eps) \cap core})
RECURSIVE LabelsFrom(_, _, _, _, _)
LabelsFrom(i, emb, eps, core, seeds) ==
  IF i > Len(emb) THEN << >>
  ELSE <<PointLabel(emb, i, eps, core, seeds)>>
       \o LabelsFrom(i + 1, emb, eps, core, seeds)
DBSCAN(emb, eps, min_samples) ==
  LET core == CorePoints(emb, eps, min_samples)
  IN  LabelsFrom(1, emb, eps, core, {Seed(emb, c, eps, core) : c \in core})

\* "if label != -1": clusters, as the dict label -> indices in the order
\* the labels first occur.  Held as the sequence of labels and a function.
RECURSIVE LabelOrderAll(_, _)
LabelOrderAll(labels, seen) ==
  IF labels = << >> THEN << >>
  ELSE IF Head(labels) \in seen
       THEN LabelOrderAll(Tail(labels), seen)
       ELSE <<Head(labels)>> \o LabelOrderAll(Tail(labels), seen \cup {Head(labels)})
LabelOrderWithNoise(labels) == LabelOrderAll(labels, {})
LabelOrder(labels) == LabelOrderAll(labels, {None})
RECURSIVE Members(_, _, _)
Members(labels, label, from) ==
  IF from > Len(labels) THEN << >>
  ELSE (IF labels[from] = label THEN <<from>> ELSE << >>)
       \o Members(labels, label, from + 1)

\* The embeddings of a list of chunks or of results.
RECURSIVE Embeddings(_)
Embeddings(chunks) ==
  IF chunks = << >> THEN << >>
  ELSE <<Head(chunks).embedding>> \o Embeddings(Tail(chunks))

\* eps = 1.0 - similarity_threshold, in hundredths.
Eps(similarity_threshold) == 100 - similarity_threshold

\* ------------------------------------------- ThemeProcessor.identify_themes
\* get_document_embeddings: for every registered chunk id the first entry
\* the index returns for it.
Stored(cid) == {e \in vector_db : e.chunk_id = cid}
FirstStored(cid) == CHOOSE e \in Stored(cid) : \A f \in Stored(cid) : e.eid <= f.eid
RECURSIVE FoundChunks(_)
FoundChunks(cids) ==
  IF cids = << >> THEN << >>
  ELSE (IF Stored(Head(cids)) = {} THEN << >> ELSE <<FirstStored(Head(cids))>>)
       \o FoundChunks(Tail(cids))
DocumentEmbeddings(d) ==
  IF d \in DOMAIN chunk_metadata THEN FoundChunks(chunk_metadata[d]) ELSE << >>

\* Lines 76-93: the documents asked for, or all documents of the store a
\* new DocumentProcessor loads; lines 100-108: their chunks in one list.
ThemeDocuments(ids) == IF ids = {} THEN DOMAIN metadata_file ELSE ids
RECURSIVE AllChunks(_, _)
AllChunks(ids, k) ==
  IF k > Len(DocSeq) THEN << >>
  ELSE (IF DocSeq[k] \in ids THEN DocumentEmbeddings(DocSeq[k]) ELSE << >>)
       \o AllChunks(ids, k + 1)
DocumentChunks(ids) == {d \in ids : DocumentEmbeddings(d) # << >>}

\* Lines 154-183: one citation per member whose document is in the store,
\* unless the same (document_id, citation) is there already.
RECURSIVE Citations(_, _, _)
Citations(chunks, members, acc) ==
  IF members = << >> THEN acc
  ELSE LET c == chunks[Head(members)]
           cit == [document_id |-> c.document_id, citation |-> c.page]
       IN  Citations(chunks, Tail(members),
                     IF c.document_id \notin DOMAIN metadata_file
                        \/ \E k \in 1 .. Len(acc) : acc[k] = cit
                     THEN acc ELSE Append(acc, cit))

MemberDocs(chunks, members) ==
  {chunks[members[k]].document_id : k \in 1 .. Len(members)}

\* Lines 137-248: the theme of one cluster; LabelId takes the theme's id
\* from the cluster label in place of the uuid.
ThemeOfLabelId(chunks, label, members, id) ==
  [id |-> label, name |-> label + 1,
   document_count |-> Cardinality(MemberDocs(chunks, members)),
   document_ids |-> MemberDocs(chunks, members),
   chunk_ids |-> [k \in 1 .. Len(members) |-> chunks[members[k]].chunk_id],
   citations |-> Citations(chunks, members, << >>)]
ThemeOf(chunks, label, members, id) ==
  [id |-> id, name |-> label + 1,
   document_count |-> Cardinality(MemberDocs(chunks, members)),
   document_ids |-> MemberDocs(chunks, members),
   chunk_ids |-> [k \in 1 .. Len(members) |-> chunks[members[k]].chunk_id],
   citations |-> Citations(chunks, members, << >>)]

\* Line 148: "if len(doc_ids) >= min_documents".
SpansEnoughAlways(chunks, members, min_documents) == TRUE
SpansEnough(chunks, members, min_documents) ==
  Cardinality(MemberDocs(chunks, members)) >= min_documents

RECURSIVE BuildThemes(_, _, _, _, _)
BuildThemes(chunks, labels, order, min_documents, id) ==
  IF order = << >> THEN << >>
  ELSE LET members == Members(labels, Head(order), 1)
       IN  IF SpansEnough(chunks, members, min_documents)
           THEN <<ThemeOf(chunks, Head(order), members, id)>>
                \o BuildThemes(chunks, labels, Tail(order), min_documents, id + 1)
           ELSE BuildThemes(chunks, labels, Tail(order), min_documents, id)

\* "clusters": label -> member indices, in the order of the dict.
RECURSIVE ClustersOf(_, _)
ClustersOf(labels, order) ==
  IF order = << >> THEN << >>
  ELSE <<[label |-> Head(order), members |-> Members(labels, Head(order), 1)]>>
       \o ClustersOf(labels, Tail(order))
Clusters(labels) == ClustersOf(labels, LabelOrder(labels))

\* The state of a new ThemeProcessor without themes.json; no call made yet.
NoRun ==
  [by |-> "none", chunks |-> << >>, labels |-> << >>, clusters |-> << >>,
   min_documents |-> 0, themes |-> << >>]
ThemeStateInit ==
  /\ themes = EmptyDict
  /\ run = NoRun
  /\ theme_runs = 0
  /\ next_uuid = 0

\* Lines 227-234: the Theme of the response.
ThemeResponse(th) ==
  [id |-> th.id, name |-> th.name, document_count |-> th.document_count,
   citations |-> th.citations]
RECURSIVE StoreThemes(_, _)
StoreThemes(store, found) ==
  IF found = << >> THEN store
  ELSE StoreThemes(Put(store, Head(found).id, Head(found)), Tail(found))
ChunkMap(chunks) ==
  [k \in 1 .. Len(chunks) |->
     [document_id |-> chunks[k].document_id, chunk_id |-> chunks[k].chunk_id]]

\* identify_themes(document_ids, min_documents, similarity_threshold); an
\* empty or absent document_ids list means every document of the store.
ThemeIdentify(ids, min_documents, similarity_threshold) ==
  /\ theme_runs < MaxThemeRuns
  /\ theme_runs' = theme_runs + 1
  /\ LET docs == ThemeDocuments(ids)
         chunks == AllChunks(docs, 1)
         labels == DBSCAN(Embeddings(chunks), Eps(similarity_threshold),
                          min_documents)
         found == BuildThemes(chunks, labels, LabelOrder(labels), min_documents,
                              next_uuid)
     IN  IF Cardinality(DocumentChunks(docs)) < min_documents
         THEN /\ run' = [NoRun EXCEPT !.by = "theme", !.min_documents = min_documents]
              /\ UNCHANGED <<themes, next_uuid>>
         ELSE /\ run' = [by |-> "theme", chunks |-> ChunkMap(chunks),
                         labels |-> labels, clusters |-> Clusters(labels),
                         min_documents |-> min_documents,
                         themes |-> [k \in 1 .. Len(found) |-> ThemeResponse(found[k])]]
              /\ themes' = StoreThemes(themes, found)
              /\ next_uuid' = next_uuid + Len(found)
  /\ UNCHANGED <<ingest_vars, query_vars, cite_vars>>

\* ------------------------------------------- QueryProcessor.identify_themes
\* Lines 192-249: one theme per cluster, one citation per result of it.
QueryThemeOf(hits, cluster) ==
  [id |-> cluster.label,
   document_count |-> Cardinality(MemberDocs(hits, cluster.members)),
   citations |-> [k \in 1 .. Len(cluster.members) |->
                    [document_id |-> hits[cluster.members[k]].document_id,
                     citation |-> hits[cluster.members[k]].citation,
                     relevance_score |-> hits[cluster.members[k]].relevance_score]]]

\* identify_themes(query, document_ids, max_results): the search, then the
\* clustering of the results when there are MIN_THEME_DOCUMENTS of them.
QueryIdentify(q, ids, max_results) ==
  /\ theme_runs < MaxThemeRuns
  /\ theme_runs' = theme_runs + 1
  /\ LET hits == SearchResults(ids, q, max_results)
         labels == DBSCAN(Embeddings(hits), Eps(THEME_SIMILARITY_THRESHOLD),
                          MIN_THEME_DOCUMENTS)
     IN  IF Len(hits) >= MIN_THEME_DOCUMENTS
         THEN run' = [by |-> "query", chunks |-> ChunkMap(hits),
                      labels |-> labels, clusters |-> Clusters(labels),
                      min_documents |-> MIN_THEME_DOCUMENTS,
                      themes |-> [k \in 1 .. Len(Clusters(labels)) |->
                                    QueryThemeOf(hits, Clusters(labels)[k])]]
         ELSE run' = [NoRun EXCEPT !.by = "query",
                                   !.chunks = ChunkMap(hits),
                                   !.min_documents = MIN_THEME_DOCUMENTS]
  /\ UNCHANGED <<themes, next_uuid>>
  /\ UNCHANGED <<ingest_vars, query_vars, cite_vars>>

\* ---------------------------------------------------------- specifications
\* The file uploaded in Spec: a text file of three lines.
PlainFiles ==
  {[type |-> "txt", lines |-> <<TextLine, Blank, TextLine>>, chars |-> 900,
    pages |-> 1, info |-> 1]}

IngestInit ==
  /\ uploads = EmptyDict
  /\ document = EmptyDict
  /\ documents = {}
  /\ metadata_file = EmptyDict
  /\ textfile = EmptyDict
  /\ tasks = [t \in TaskIds |-> IdleTask]
  /\ calls = [d \in DocIds |-> 0]
  /\ runs = [d \in DocIds |-> 0]
  /\ clock = 0
  /\ vector_db = {}
  /\ next_eid = 0
  /\ chunk_metadata = EmptyDict
  /\ adding = IdleAdd
  /\ adds = 0
  /\ results = << >>
  /\ search_deleted = {}
  /\ deleted = {}
  /\ crashed = FALSE

\* ------------------------------------------------ EnhancedCitationService
\* words of a line as re.findall(r'\b\w+\b', text.lower()) yields them: a
\* marker line gives "page" and its number, a line of text its own words.
Words(line) ==
  CASE line.kind = "marker" -> {<<"page", 0>>, <<"digits", line.n>>}
    [] line.kind = "badmarker" -> {<<"page", 0>>, <<"x", 0>>}
    [] line.kind = "text" -> {<<"word", line.n>>}
    [] OTHER -> {}
WordSet(lines) == UNION {Words(lines[k]) : k \in 1 .. Len(lines)}

\* _split_into_paragraphs: every "--- Page <digits> ---" is put on lines of
\* its own between newlines, the text is split at blank lines and empty
\* pieces are dropped.
Flush(cur) == IF cur = << >> THEN << >> ELSE <<cur>>
RECURSIVE ParagraphsFrom(_, _)
ParagraphsFrom(lines, cur) ==
  IF lines = << >> THEN Flush(cur)
  ELSE IF Head(lines).kind = "blank"
    THEN Flush(cur) \o ParagraphsFrom(Tail(lines), << >>)
  ELSE IF Head(lines).kind = "marker"
    THEN Flush(cur) \o <<<<Head(lines)>>>> \o ParagraphsFrom(Tail(lines), << >>)
  ELSE ParagraphsFrom(Tail(lines), Append(cur, Head(lines)))
SplitIntoParagraphs(lines) == ParagraphsFrom(lines, << >>)

\* _split_into_sentences, every line of text being one sentence.
SplitIntoSentences(paragraph) == paragraph

\* _extract_page_number: the number of the first marker in the text.
ExtractPageNumber(paragraph) == PageInfo(paragraph)

\* _estimate_page_number; ByIndex takes one page per paragraph.
EstimatePageNumberByIndex(paragraph_index, total_paragraphs, total_pages) ==
  Min(paragraph_index + 1, total_pages)
EstimatePageNumber(paragraph_index, total_paragraphs, total_pages) ==
  IF total_paragraphs <= 1 THEN 1
  ELSE Min(1 + ((paragraph_index * total_pages) \div total_paragraphs), total_pages)

\* process_document, lines 89-117: the entry of paragraph i (from 0).
ParagraphData(paragraphs, i, page_count) ==
  LET paragraph == paragraphs[i + 1]
      marked == ExtractPageNumber(paragraph)
  IN  [index |-> i,
       page |-> IF Truthy(marked) THEN marked
                ELSE EstimatePageNumber(i, Len(paragraphs), page_count),
       text |-> paragraph,
       sentences |-> SplitIntoSentences(paragraph)]
RECURSIVE ParagraphEntries(_, _, _)
ParagraphEntries(paragraphs, n, page_count) ==
  IF n = 0 THEN << >>
  ELSE ParagraphEntries(paragraphs, n - 1, page_count)
         \o <<ParagraphData(paragraphs, n - 1, page_count)>>

\* process_document, lines 78-86 and 89-117: the citation data of a text.
CitationData(lines, page_count) ==
  LET paragraphs == SplitIntoParagraphs(lines)
  IN  [paragraph_count |-> Len(paragraphs),
       paragraphs |-> ParagraphEntries(paragraphs, Len(paragraphs), page_count)]

\* Line 120: self.citation_metadata[doc_id] = citation_data.
StoreCitationAppend(stored, d, data) ==
  IF d \in DOMAIN stored
  THEN Put(stored, d,
           [paragraph_count |-> stored[d].paragraph_count + data.paragraph_count,
            paragraphs |-> stored[d].paragraphs \o data.paragraphs])
  ELSE Put(stored, d, data)
StoreCitation(stored, d, data) == Put(stored, d, data)

CiteStateInit ==
  /\ citation_metadata = EmptyDict
  /\ cite_runs = 0

\* EnhancedCitationService.process_document on the record of document d.
\* A record that is not processed, or whose text file is missing, returns
\* False and stores nothing.
CiteProcessDocument(d) ==
  /\ cite_runs < MaxCites
  /\ d \in documents
  /\ document[d].status = "processed"
  /\ document[d].processed_path
  /\ d \in DOMAIN textfile
  /\ citation_metadata' =
       StoreCitation(citation_metadata, d,
                     CitationData(textfile[d], document[d].page_count))
  /\ cite_runs' = cite_runs + 1
  /\ UNCHANGED <<ingest_vars, theme_vars, query_vars>>

\* _similarity_score: the Jaccard ratio of the two word sets, as the pair
\* <<intersection, union>>; 0.0 when either set is empty.
SimilarityScore(text1, text2) ==
  LET words1 == WordSet(text1)
      words2 == WordSet(text2)
  IN  IF words1 = {} \/ words2 = {} THEN <<0, 1>>
      ELSE <<Cardinality(words1 \cap words2), Cardinality(words1 \cup words2)>>
Greater(a, b) == a[1] * b[2] > b[1] * a[2]

NoMatch == [score |-> <<0, 1>>, paragraph |-> None, sentence |-> None]

\* get_citation, lines 250-260: the sentences of paragraph p, from j on.
RECURSIVE BestSentence(_, _, _, _, _)
BestSentence(sentences, j, p, chunk_text, best) ==
  IF j >= Len(sentences) THEN best
  ELSE LET s_score == SimilarityScore(chunk_text, <<sentences[j + 1]>>)
       IN  BestSentence(sentences, j + 1, p, chunk_text,
                        IF Greater(s_score, best.score)
                        THEN [score |-> s_score, paragraph |-> p, sentence |-> j]
                        ELSE best)

\* get_citation, lines 238-260: the loop over the paragraphs, from p on.
RECURSIVE BestMatch(_, _, _, _, _)
BestMatch(paragraphs, p, chunk_text, granularity, best) ==
  IF p >= Len(paragraphs) THEN best
  ELSE LET p_score == SimilarityScore(chunk_text, paragraphs[p + 1].text)
           after == IF Greater(p_score, best.score)
                    THEN [score |-> p_score, paragraph |-> p, sentence |-> None]
                    ELSE best
       IN  BestMatch(paragraphs, p + 1, chunk_text, granularity,
                     IF granularity = "sentence"
                     THEN BestSentence(paragraphs[p + 1].sentences, 0, p,
                                       chunk_text, after)
                     ELSE after)

\* The citation strings: "Document {id}", "Document: {title}", "Page N",
\* "Page N, Paragraph M" and "Page N, Paragraph M, Sentence K".
Citation(kind, page, paragraph, sentence) ==
  [kind |-> kind, page |-> page, paragraph |-> paragraph, sentence |-> sentence]

\* get_citation; Strict gives the document-level citation when a sentence
\* is asked for and none is found.
GetCitationStrict(d, chunk_text, granularity) ==
  IF d \notin DOMAIN citation_metadata THEN Citation("id", None, None, None)
  ELSE
    LET paragraphs == citation_metadata[d].paragraphs
        best == BestMatch(paragraphs, 0, chunk_text, granularity, NoMatch)
    IN  IF best.paragraph = None \/ granularity = "document"
          THEN Citation("title", None, None, None)
        ELSE IF granularity = "page"
          THEN Citation("page", paragraphs[best.paragraph + 1].page, None, None)
        ELSE IF granularity = "sentence" /\ best.sentence = None
          THEN Citation("title", None, None, None)
        ELSE Citation(IF granularity = "sentence" THEN "sentence" ELSE "paragraph",
                      paragraphs[best.paragraph + 1].page, best.paragraph + 1,
                      IF granularity = "sentence" THEN best.sentence + 1 ELSE None)
GetCitation(d, chunk_text, granularity) ==
  IF d \notin DOMAIN citation_metadata THEN Citation("id", None, None, None)
  ELSE IF granularity = "document" THEN Citation("title", None, None, None)
  ELSE
    LET paragraphs == citation_metadata[d].paragraphs
        best == BestMatch(paragraphs, 0, chunk_text, granularity, NoMatch)
    IN  IF best.paragraph = None THEN Citation("title", None, None, None)
        ELSE LET page_num == paragraphs[best.paragraph + 1].page
             IN  IF granularity = "page"
                   THEN Citation("page", page_num, None, None)
                 ELSE IF granularity = "sentence" /\ best.sentence # None
                   THEN Citation("sentence", page_num, best.paragraph + 1,
                                 best.sentence + 1)
                 ELSE Citation("paragraph", page_num, best.paragraph + 1, None)

Init == IngestInit /\ ThemeStateInit /\ QueryStateInit /\ CiteStateInit

\* The ingestion pipeline on two documents: calls in flight side by side,
\* both delete operations and a crash.
Next ==
  \/ \E d \in DocIds, f \in PlainFiles : Upload(d, f)
  \/ \E d \in DocIds : Resubmit(d)
  \/ \E t \in TaskIds :
       \E res \in ExtractResults(tasks[t].file, tasks[t].doc \in DOMAIN uploads) :
         RunExtract(t, res)
  \/ \E t \in TaskIds : UpdateMetadata(t)
  \/ \E t \in TaskIds : RecordError(t)
  \/ \E t \in TaskIds : SaveDocuments(t)
  \/ \E d \in DocIds : AddDocumentIndex(d, {0})
  \/ AddDocumentRegistry
  \/ \E d \in DocIds : VectorDelete(d)
  \/ \E d \in DocIds : DeleteDocument(d)
  \/ Crash

vars == <<ingest_vars, theme_vars, query_vars, cite_vars>>

Spec == Init /\ [][Next]_vars

\* Ingestion, deletion and search: every document is processed once, the
\* embeddings and the queries vary; the index answers every search.
NextSearch ==
  \/ \E d \in DocIds, f \in PlainFiles : Upload(d, f)
  \/ \E t \in TaskIds :
       \E res \in ExtractResults(tasks[t].file, tasks[t].doc \in DOMAIN uploads) :
         RunExtract(t, res)
  \/ \E t \in TaskIds : UpdateMetadata(t)
  \/ \E t \in TaskIds : RecordError(t)
  \/ \E t \in TaskIds : SaveDocuments(t)
  \/ \E d \in DocIds : AddDocumentIndex(d, {0, MaxEmb})
  \/ AddDocumentRegistry
  \/ \E d \in DocIds : VectorDelete(d)
  \/ \E d \in DocIds : DeleteDocument(d)
  \/ \E ids \in SUBSET {DocSeq[1], DocSeq[2]}, q \in {0, MaxEmb} :
       Search(ids, q, MaxHits, TRUE)

SpecSearch == Init /\ [][NextSearch]_vars

\* One document whose file varies: every format, texts with and without
\* marker lines, short and long texts, one or more pages.  "pages" is the
\* number of page images the file rasterizes to, "info" the number on the
\* "Pages:" line of pdfinfo (varied for PDF uploads), "chars" the length of the text read from it.
FileTexts ==
  {<<TextLine, Blank, TextLine, TextLine>>,
   <<Marker(1), TextLine, Marker(MaxPages + 1), TextLine>>,
   <<BadMarker, Marker(0), TextLine>>}
Files ==
  {f \in [type : {"pdf", "png", "docx", "txt"}, lines : FileTexts,
          chars : {MinDirectChars - 1, MinDirectChars, 2 * CharsPerPage + 1000},
          pages : 1 .. MaxPages, info : 1 .. MaxPages] :
     f.type # "pdf" => f.info = f.pages}

NextChunk ==
  \/ \E f \in Files : Upload(DocSeq[1], f)
  \/ Resubmit(DocSeq[1])
  \/ \E t \in TaskIds :
       \E res \in ExtractResults(tasks[t].file, tasks[t].doc \in DOMAIN uploads) :
         RunExtract(t, res)
  \/ \E t \in TaskIds : UpdateMetadata(t)
  \/ \E t \in TaskIds : RecordError(t)
  \/ \E t \in TaskIds : SaveDocuments(t)
  \/ AddDocumentIndex(DocSeq[1], {0})
  \/ AddDocumentRegistry

SpecChunk == Init /\ [][NextChunk]_vars

\* Theme identification over an ingested corpus.  Every document has been
\* uploaded, processed and indexed, one after the other; each is a text
\* file of one or two chunks, the last one of one chunk.  The embeddings of
\* the chunks vary.
ThemeFiles ==
  {[type |-> "txt", lines |-> <<TextLine, TextLine>>, chars |-> 900, pages |-> 1, info |-> 1],
   [type |-> "txt", lines |-> <<TextLine, TextLine, TextLine, TextLine>>,
    chars |-> 900, pages |-> 1, info |-> 1]}
Ingestable(d) ==
  UNION {[file : {f}, emb : [0 .. NumChunks(f.lines) - 1 -> 0 .. MaxEmb]] :
           f \in {g \in ThemeFiles :
                    d = DocSeq[Len(DocSeq)] => NumChunks(g.lines) = 1}}
DocIndex(d) == CHOOSE k \in 1 .. Len(DocSeq) : DocSeq[k] = d
RECURSIVE ChunksBefore(_, _)
ChunksBefore(corpus, k) ==
  IF k = 1 THEN 0
  ELSE ChunksBefore(corpus, k - 1) + NumChunks(corpus[DocSeq[k - 1]].file.lines)
ReadOk == [AllFail EXCEPT !.read = TRUE]
Ingested(corpus, d) ==
  ProcessedRecord(UploadedRecord, Extract(corpus[d].file, ReadOk).page_count,
                  DocIndex(d))
ThemeInit ==
  /\ \E corpus \in [DocIds -> UNION {Ingestable(d) : d \in DocIds}] :
       /\ \A d \in DocIds : corpus[d] \in Ingestable(d)
       /\ uploads = [d \in DocIds |-> corpus[d].file]
       /\ document = [d \in DocIds |-> Ingested(corpus, d)]
       /\ metadata_file = [d \in DocIds |-> Ingested(corpus, d)]
       /\ textfile = [d \in DocIds |-> Extract(corpus[d].file, ReadOk).lines]
       /\ vector_db =
            UNION {{Entry(d, Ingested(corpus, d), corpus[d].file.lines, i,
                          ChunksBefore(corpus, DocIndex(d)) + i, corpus[d].emb[i]) :
                      i \in 0 .. NumChunks(corpus[d].file.lines) - 1} : d \in DocIds}
       /\ next_eid = ChunksBefore(corpus, Len(DocSeq) + 1)
       /\ chunk_metadata =
            [d \in DocIds |->
               [k \in 1 .. NumChunks(corpus[d].file.lines) |-> ChunkId(d, k - 1)]]
  /\ documents = DocIds
  /\ tasks = [t \in TaskIds |-> IdleTask]
  /\ calls = [d \in DocIds |-> 1]
  /\ runs = [d \in DocIds |-> 1]
  /\ clock = Len(DocSeq)
  /\ adding = IdleAdd
  /\ adds = Len(DocSeq)
  /\ results = << >>
  /\ search_deleted = {}
  /\ deleted = {}
  /\ crashed = FALSE
  /\ ThemeStateInit
  /\ QueryStateInit
  /\ CiteStateInit

\* The first document may be deleted.  ThemeProcessor is asked for the
\* whole store, for all three ids or for one; QueryProcessor for all
\* documents or for one.  One identify_themes call is made.
NextTheme ==
  \/ DeleteDocument(DocSeq[1])
  \/ /\ theme_runs = 0
     /\ \E ids \in {{}, DocIds, {DocSeq[1]}},
           m \in {MIN_THEME_DOCUMENTS, MIN_THEME_DOCUMENTS + 1},
           thr \in {THEME_SIMILARITY_THRESHOLD, 40} :
          ThemeIdentify(ids, m, thr)
  \/ /\ theme_runs = 0
     /\ \E q \in {0, MaxEmb}, ids \in {{}, {DocSeq[1]}} :
          QueryIdentify(q, ids, MaxHits)

SpecTheme == ThemeInit /\ [][NextTheme]_vars

\* Runs one after the other over the same corpus: up to MaxThemeRuns calls
\* of identify_themes, of ThemeProcessor over the whole store at either
\* threshold and of QueryProcessor.
NextRuns ==
  \/ \E thr \in {THEME_SIMILARITY_THRESHOLD, 40} :
       ThemeIdentify({}, MIN_THEME_DOCUMENTS, thr)
  \/ \E q \in {0, MaxEmb} : QueryIdentify(q, {}, MaxHits)
SpecRuns == ThemeInit /\ [][NextRuns]_vars

\* Queries over the same ingested corpus: process_query with one hit or
\* MaxHits hits asked for, with and without a failing index.
NextQuery ==
  \/ DeleteDocument(DocSeq[1])
  \/ \E q \in {0, MaxEmb}, ids \in {{}, {DocSeq[1], DocSeq[2]}},
        k \in {1, MaxHits}, ok \in BOOLEAN :
       ProcessQuery(q, ids, k, ok)

SpecQuery == ThemeInit /\ [][NextQuery]_vars


\* The citation service over one document that has been uploaded,
\* processed and indexed: a PDF or a text file, read directly or by OCR,
\* with and without marker lines and blank lines.  The service indexes the
\* document up to MaxCites times; the document may be deleted.
CiteTexts ==
  FileTexts \cup {<<TextLine, OtherLine, OtherLine, OtherLine>>,
                  <<TextLine, Blank, OtherLine>>,
                  <<TextLine, Blank, OtherLine, Blank, TextLine, Blank, OtherLine,
                    Blank, OtherLine>>,
                  <<TextLine, Word(2), Word(3), Blank, TextLine, Word(4)>>}
CiteFiles ==
  {f \in [type : {"pdf", "txt"}, lines : CiteTexts,
          chars : {MinDirectChars - 1, MinDirectChars, 3 * CharsPerPage},
          pages : 1 .. MaxPages, info : 1 .. MaxPages] :
     f.type # "pdf" => f.info = f.pages}
CiteInit ==
  /\ \E f \in CiteFiles :
       \E o \in Outcomes(f.type) :
         LET res == Extract(f, o)
             doc == ProcessedRecord(UploadedRecord, res.page_count, 1)
             n == NumChunks(res.lines)
         IN  /\ res.ok
             /\ uploads = Put(EmptyDict, DocSeq[1], f)
             /\ document = Put(EmptyDict, DocSeq[1], doc)
             /\ metadata_file = Put(EmptyDict, DocSeq[1], doc)
             /\ textfile = Put(EmptyDict, DocSeq[1], res.lines)
             /\ vector_db = {Entry(DocSeq[1], doc, res.lines, i, i, 0) : i \in 0 .. n - 1}
             /\ next_eid = n
             /\ chunk_metadata =
                  Put(EmptyDict, DocSeq[1], [k \in 1 .. n |-> ChunkId(DocSeq[1], k - 1)])
  /\ documents = {DocSeq[1]}
  /\ tasks = [t \in TaskIds |-> IdleTask]
  /\ calls = [d \in DocIds |-> IF d = DocSeq[1] THEN 1 ELSE 0]
  /\ runs = [d \in DocIds |-> IF d = DocSeq[1] THEN 1 ELSE 0]
  /\ clock = 1
  /\ adding = IdleAdd
  /\ adds = 1
  /\ results = << >>
  /\ search_deleted = {}
  /\ deleted = {}
  /\ crashed = FALSE
  /\ ThemeStateInit
  /\ QueryStateInit
  /\ CiteStateInit
NextCite ==
  \/ CiteProcessDocument(DocSeq[1])
  \/ DeleteDocument(DocSeq[1])
SpecCite == CiteInit /\ [][NextCite]_vars

\* One upload whose external tools may succeed, fail or never return.  A
\* call of process_document that can take a step eventually takes one.
NextHang ==
  \/ \E f \in Files : Upload(DocSeq[1], f)
  \/ \E t \in TaskIds :
       \E res \in ExtractResults(tasks[t].file, tasks[t].doc \in DOMAIN uploads) :
         RunExtract(t, res)
  \/ \E t \in TaskIds : ToolHangs(t)
  \/ \E t \in TaskIds : UpdateMetadata(t)
  \/ \E t \in TaskIds : RecordError(t)
  \/ \E t \in TaskIds : SaveDocuments(t)
CallStep(t) ==
  \/ \E res \in ExtractResults(tasks[t].file, tasks[t].doc \in DOMAIN uploads) :
       RunExtract(t, res)
  \/ UpdateMetadata(t)
  \/ RecordError(t)
  \/ SaveDocuments(t)
SpecHang ==
  Init /\ [][NextHang]_vars /\ \A t \in TaskIds : WF_vars(CallStep(t))

\* Uploads and deletions of different documents on the one store, with
\* _save_documents of the background calls taken step by step.  The delete
\* endpoint writes its dump in one step.
NextStore ==
  \/ \E d \in DocIds, f \in PlainFiles : Upload(d, f)
  \/ \E t \in TaskIds :
       \E res \in ExtractResults(tasks[t].file, tasks[t].doc \in DOMAIN uploads) :
         RunExtract(t, res)
  \/ \E t \in TaskIds : UpdateMetadata(t)
  \/ \E t \in TaskIds : RecordError(t)
  \/ \E t \in TaskIds : SaveDocumentsOpen(t)
  \/ \E t \in TaskIds :
       \E out \in Overlays(tasks[t].dump, metadata_file) : SaveDocumentsClose(t, out)
  \/ \E d \in DocIds : DeleteDocument(d)
SpecStore == Init /\ [][NextStore]_vars

\* ------------------------------------------------------------------ claims
Known(page_count) == page_count # None /\ page_count > 0

\* C1: every chunk in the index that belongs to a processed document whose
\* page_count is known carries a page between 1 and that page_count.
C1_ChunkPageInRange ==
  \A e \in vector_db :
    LET d == e.document_id
    IN  (d \in documents /\ document[d].status = "processed"
         /\ Known(document[d].page_count))
        => (1 <= e.page /\ e.page <= document[d].page_count)

\* The cluster a theme of the last call was built from: ThemeProcessor
\* names it "Theme {label + 1}", QueryProcessor gives it the id
\* "theme_{label}".  The documents its members come from.
ThemeLabel(th) == IF run.by = "theme" THEN th.name - 1 ELSE th.id
Labelled(label) == {i \in 1 .. Len(run.labels) : run.labels[i] = label}
LabelSpan(label) == {run.chunks[i].document_id : i \in Labelled(label)}
ClusterLabels == {run.labels[i] : i \in 1 .. Len(run.labels)} \ {None}
ThemesOf(label) == {k \in 1 .. Len(run.themes) : ThemeLabel(run.themes[k]) = label}

\* C2: every theme either processor returns is built from chunks of at
\* least min_documents distinct documents.
C2_ThemesSpanMinDocuments ==
  \A k \in 1 .. Len(run.themes) :
    Cardinality(LabelSpan(ThemeLabel(run.themes[k]))) >= run.min_documents

\* C3: the document_count of a theme ThemeProcessor returns is the number
\* of distinct documents its citations name.
C3_DocumentCountMatchesCitations ==
  run.by = "theme" =>
    \A k \in 1 .. Len(run.themes) :
      run.themes[k].document_count =
        Cardinality({run.themes[k].citations[j].document_id :
                       j \in 1 .. Len(run.themes[k].citations)})

\* C4: no chunk labelled as noise is part of a theme.  No theme is built
\* from the noise label, and the documents a theme cites are documents of
\* chunks that carry its label; the chunk ids and the document ids stored
\* with a ThemeProcessor theme are those of chunks that carry its label,
\* and a QueryProcessor theme has one citation per result that carries its
\* label.
C4_NoiseNeverInTheme ==
  \A k \in 1 .. Len(run.themes) :
    LET th == run.themes[k]
    IN  /\ ThemeLabel(th) # None
        /\ \A j \in 1 .. Len(th.citations) :
             th.citations[j].document_id \in LabelSpan(ThemeLabel(th))
        /\ IF run.by = "theme"
           THEN /\ \A c \in 1 .. Len(themes[th.id].chunk_ids) :
                     \A i \in 1 .. Len(run.chunks) :
                       run.chunks[i].chunk_id = themes[th.id].chunk_ids[c]
                         => run.labels[i] # None
                /\ themes[th.id].document_ids \subseteq LabelSpan(ThemeLabel(th))
           ELSE Len(th.citations) = Cardinality(Labelled(th.id))
C4_Witness ==
  /\ run.by = "theme"
  /\ Len(run.themes) >= 1
  /\ \E i, j \in 1 .. Len(run.labels) :
       /\ run.labels[i] = None
       /\ run.labels[j] # None
       /\ run.chunks[i].document_id = run.chunks[j].document_id

C6_DeletedDocumentLeavesNoChunk ==
  adding.pc = "idle" =>
    /\ \A d \in deleted :
         /\ \A e \in vector_db : e.document_id # d
         /\ d \notin DOMAIN chunk_metadata
    /\ \A d \in search_deleted :
         \A i \in 1 .. Len(results) : results[i].document_id # d

\* C7: no two process_document calls run on the same document at a time.
Running(t) == tasks[t].pc # "idle"
C7_OneExtractionPerDocument ==
  \A t, u \in TaskIds :
    (t # u /\ Running(t) /\ Running(u)) => tasks[t].doc # tasks[u].doc

\* C8: with no call in flight (so also after a crash and restart) a
\* document is either as before processing or fully processed: a stored
\* processed record has its extracted text, and every indexed chunk is
\* listed in the chunk registry.
NothingInFlight == adding.pc = "idle" /\ \A t \in TaskIds : ~Running(t)
C8_AtomicPerDocument ==
  NothingInFlight =>
    /\ \A d \in documents :
         document[d].status = "processed" => d \in DOMAIN textfile
    /\ \A e \in vector_db :
         /\ e.document_id \in DOMAIN chunk_metadata
         /\ e.chunk_id \in SeqRange(chunk_metadata[e.document_id])

\* The order of the strategies in the chains, and where each chain starts
\* and ends.
StrategyRank(s) ==
  CASE s = "word_native" -> 1
    [] s = "convert" -> 2
    [] s = "pdftotext" -> 3
    [] s = "pdfinfo" -> 4
    [] s = "ocr" -> 5
    [] OTHER -> 1
FirstStrategy(type) ==
  IF type = "pdf" THEN "pdftotext"
  ELSE IF type \in WordTools THEN "word_native"
  ELSE IF type \in {"png", "jpg", "jpeg", "tiff", "bmp"} THEN "image_ocr"
  ELSE "read"
LastStrategy(type) ==
  IF type \in PdfTools THEN "ocr"
  ELSE IF type \in {"png", "jpg", "jpeg", "tiff", "bmp"} THEN "image_ocr"
  ELSE "read"
ChainExhausted(type, tried) ==
  /\ tried # << >>
  /\ tried[1] = FirstStrategy(type)
  /\ \A i, j \in 1 .. Len(tried) :
       i < j => StrategyRank(tried[i]) <= StrategyRank(tried[j])
  /\ \/ tried[Len(tried)] = LastStrategy(type)
     \/ type \in WordTools /\ tried = <<"word_native", "convert">>

\* C9: an extraction that has failed has gone through the chain of its
\* format in order and ended at the chain's last strategy: OCR for a PDF
\* and for a converted Word file (or the conversion itself, without which
\* no PDF path exists), the one OCR run for an image, the read for text.
C9_FailsOnlyAfterChainExhausted ==
  \A t \in TaskIds :
    (tasks[t].pc \in {"error", "save"} /\ ~tasks[t].res.ok)
      => ChainExhausted(tasks[t].file.type, tasks[t].res.tried)
C9_Witness ==
  \E t \in TaskIds :
    /\ tasks[t].pc = "error"
    /\ tasks[t].file.type = "docx"
    /\ tasks[t].res.tried = <<"word_native", "convert", "pdftotext", "pdfinfo", "ocr">>

\* C10 as stated: the failure handler leaves the document stored with
\* status "failed" and an error message.
C10_FailureRecordedAsFailed ==
  \A t \in TaskIds :
    (tasks[t].pc = "save" /\ ~tasks[t].res.ok)
      => /\ tasks[t].doc \in documents
         /\ document[tasks[t].doc].status = "failed"
         /\ document[tasks[t].doc].error_message

\* C10 as amended: the step of the failure handler leaves the document
\* stored with status "error" and an error message, and no document has
\* more extraction runs than process_document calls.
C10_FailureRecordedAsError ==
  /\ [][\A t \in TaskIds :
          (tasks[t].pc = "error" /\ tasks'[t].pc = "save")
            => /\ tasks[t].doc \in documents'
               /\ document'[tasks[t].doc].status = "error"
               /\ document'[tasks[t].doc].error_message]_vars
  /\ [](\A d \in DocIds : runs[d] <= calls[d])
C10_Witness ==
  \E t \in TaskIds :
    /\ tasks[t].pc = "save"
    /\ ~tasks[t].res.ok
    /\ tasks[t].doc \in documents
    /\ document[tasks[t].doc].status = "error"
    /\ document[tasks[t].doc].error_message
    /\ runs[tasks[t].doc] = calls[tasks[t].doc]

\* C11: a PDF whose direct text has at least MinDirectChars characters,
\* with pdftotext and pdfinfo both run and nothing after them, gives the
\* direct text with the page count of pdfinfo; a PDF with a shorter direct
\* text never reaches pdfinfo, and what it gives is the OCR text with as
\* many pages as page images; so does every file that ends on the OCR
\* path.
Extracted(t) == tasks[t].pc \in {"update", "error", "save"}
C12_RelevanceScoreBounded ==
  index_call.ok =>
    /\ Len(results) = Len(index_call.hits)
    /\ \A i \in 1 .. Len(results) :
         /\ 0 <= results[i].relevance_score
         /\ results[i].relevance_score <= 100
         /\ results[i].relevance_score =
              100 - (IF index_call.hits[i].score <= 100
                     THEN index_call.hits[i].score ELSE 100)
    /\ \A i, j \in 1 .. Len(results) :
         index_call.hits[i].score <= index_call.hits[j].score
           => results[i].relevance_score >= results[j].relevance_score
C12_Witness ==
  /\ index_call.ok
  /\ \E i, j \in 1 .. Len(results) :
       /\ index_call.hits[i].score = 0
       /\ results[i].relevance_score = 100
       /\ index_call.hits[j].score > 100
       /\ results[j].relevance_score = 0

\* C13: when the index has returned, the list search returns and the list
\* in the response of process_query are as long as the hit list, and the
\* i-th entry of each is built from the i-th hit.
C13_ResultsFollowHits ==
  index_call.ok =>
    /\ Len(results) = Len(index_call.hits)
    /\ \A i \in 1 .. Len(results) :
         /\ results[i].chunk_id = index_call.hits[i].doc.chunk_id
         /\ results[i].document_id = index_call.hits[i].doc.document_id
         /\ results[i].citation = index_call.hits[i].doc.page
    /\ query_response.query # None =>
         /\ Len(query_response.results) = Len(index_call.hits)
         /\ \A i \in 1 .. Len(index_call.hits) :
              /\ query_response.results[i].document_id =
                   index_call.hits[i].doc.document_id
              /\ query_response.results[i].citation = index_call.hits[i].doc.page
              /\ query_response.results[i].embedding =
                   index_call.hits[i].doc.embedding
C13_Witness ==
  /\ index_call.ok
  /\ query_response.query # None
  /\ Len(query_response.results) = MaxHits
  /\ index_call.hits[1].score < index_call.hits[MaxHits].score
  /\ \E i, j \in 1 .. MaxHits :
       /\ i # j
       /\ query_response.results[i].document_id =
            query_response.results[j].document_id

\* C19: when the embedding of the query or the call of the index fails,
\* search returns the empty list and so does process_query.
C19_SearchFailureGivesEmpty ==
  ~index_call.ok =>
    /\ results = << >>
    /\ query_response.query # None => query_response.results = << >>
C19_Witness ==
  /\ ~index_call.ok
  /\ index_call.hits # << >>
  /\ query_response.query # None
  /\ query_response.results = << >>
  /\ Len(query_history) = 1
  /\ query_history[1].result_count = 0


\* C14: for every chunk of a processed document whose citation index has
\* been built, get_citation applied to the chunk's own text resolves to
\* the page that add_document stored in the chunk's metadata.  Stated for
\* the chunks that hold at least one word.
C14_CitationPageIsChunkPage ==
  \A e \in vector_db :
    (/\ e.document_id \in documents
     /\ e.document_id \in DOMAIN textfile
     /\ e.document_id \in DOMAIN citation_metadata
     /\ WordSet(ChunkAt(textfile[e.document_id], e.chunk_index)) # {})
    => LET cited == GetCitation(e.document_id,
                                ChunkAt(textfile[e.document_id], e.chunk_index),
                                "paragraph")
       IN  cited.page = e.page

C16_ProcessedRecordStable ==
  [][\A d \in DOMAIN document :
       (/\ document[d].status = "processed"
        /\ d \in DOMAIN metadata_file
        /\ metadata_file[d] = document[d]
        /\ Cardinality({t \in TaskIds : tasks[t].pc # "idle"}) <= 1
        /\ d \in DOMAIN document')
         => /\ document'[d].status = document[d].status
            /\ document'[d].page_count = document[d].page_count
            /\ document'[d].processed_time = document[d].processed_time
            /\ document'[d].error_message = document[d].error_message]_vars

\* C17: the processing of an uploaded document ends with the record in
\* status processed or error, whatever the external tools do.
C17_ProcessingTerminates ==
  (DocSeq[1] \in DOMAIN document)
    ~> (/\ DocSeq[1] \in DOMAIN document
        /\ document[DocSeq[1]].status \in {"processed", "error"})

\* C18: a run of either processor whose candidate chunks come from fewer
\* than min_documents distinct documents returns no theme and leaves the
\* stored themes as they were.
CandidateDocuments(r) == {r.chunks[k].document_id : k \in 1 .. Len(r.chunks)}
C18_TooFewDocumentsNoThemes ==
  [][(/\ theme_runs' = theme_runs + 1
      /\ Cardinality(CandidateDocuments(run')) < run'.min_documents)
       => (run'.themes = << >> /\ themes' = themes)]_vars

\* C20: the i-th chunk of document D has the id 'D_chunk_i' in the index;
\* the registry lists the ids of a document in index order, pairwise
\* distinct; an add_document call on a document already registered with
\* the same number of chunks produces the id sequence that is registered.
C20_ChunkIdsDeterministic ==
  /\ \A e \in vector_db : e.chunk_id = <<e.document_id, e.chunk_index>>
  /\ \A d \in DOMAIN chunk_metadata :
       /\ \A k \in 1 .. Len(chunk_metadata[d]) : chunk_metadata[d][k] = <<d, k - 1>>
       /\ \A j, k \in 1 .. Len(chunk_metadata[d]) :
            j # k => chunk_metadata[d][j] # chunk_metadata[d][k]
  /\ (/\ adding.pc = "registry"
      /\ adding.doc \in DOMAIN chunk_metadata
      /\ Len(adding.chunk_ids) = Len(chunk_metadata[adding.doc]))
       => adding.chunk_ids = chunk_metadata[adding.doc]
C20_Witness ==
  /\ adds = MaxAdds
  /\ adding.pc = "registry"
  /\ adding.doc \in DOMAIN chunk_metadata
  /\ Len(chunk_metadata[adding.doc]) >= 2
  /\ adding.chunk_ids = chunk_metadata[adding.doc]
  /\ \E e, g \in vector_db : e.chunk_id = g.chunk_id /\ e.eid # g.eid

\* C21: a delete_document call on an id present in the store (the step
\* that removes its uploaded file) removes the record of that id from the
\* store and from the dumped metadata and leaves every other record as it
\* was.
C21_DeleteRemovesRecord ==
  [][\A d \in documents :
       (d \in DOMAIN uploads /\ d \notin DOMAIN uploads')
         => /\ documents' = documents \ {d}
            /\ DOMAIN metadata_file' = documents \ {d}
            /\ \A x \in documents \ {d} : document'[x] = document[x]]_vars

\* C22: in a citation index, a paragraph that holds a page marker, or that
\* comes after one with no later marker in between, has the page of that
\* marker.  Stated for markers of page 1 and above.
HoldsMarker(paragraph) == Truthy(ExtractPageNumber(paragraph.text))
MarkerBefore(paragraphs, k) ==
  {j \in 1 .. k : /\ HoldsMarker(paragraphs[j])
                  /\ \A i \in j + 1 .. k : ~HoldsMarker(paragraphs[i])}
C22_ParagraphTakesMarkerPage ==
  \A d \in DOMAIN citation_metadata :
    LET paragraphs == citation_metadata[d].paragraphs
    IN  \A k \in 1 .. Len(paragraphs) :
          \A j \in MarkerBefore(paragraphs, k) :
            paragraphs[k].page = ExtractPageNumber(paragraphs[j].text)

MarkersIncrease(paragraphs) ==
  \A i, j \in 1 .. Len(paragraphs) :
    (i < j /\ HoldsMarker(paragraphs[i]) /\ HoldsMarker(paragraphs[j]))
      => ExtractPageNumber(paragraphs[i].text) < ExtractPageNumber(paragraphs[j].text)
C24_PagesNeverDecrease ==
  \A d \in DOMAIN citation_metadata :
    LET paragraphs == citation_metadata[d].paragraphs
    IN  MarkersIncrease(paragraphs)
          => \A i, j \in 1 .. Len(paragraphs) :
               i < j => paragraphs[i].page <= paragraphs[j].page

\* C25: whatever the granularity, the paragraph get_citation names is the
\* first of the paragraphs whose word set has the greatest Jaccard overlap
\* with chunk_text; a sentence it names is the first of the sentences of
\* that paragraph with the greatest overlap.
CitedTexts ==
  {<<TextLine>>, <<OtherLine>>, <<TextLine, OtherLine>>, <<Marker(1), TextLine>>,
   <<Word(4), OtherLine>>, <<Word(4)>>}
Overlaps(paragraphs, chunk_text) ==
  {p \in 1 .. Len(paragraphs) :
     Greater(SimilarityScore(chunk_text, paragraphs[p].text), <<0, 1>>)}
FirstGreatest(texts, S, chunk_text) ==
  CHOOSE p \in S :
    \A q \in S :
      /\ ~Greater(SimilarityScore(chunk_text, texts[q]),
                  SimilarityScore(chunk_text, texts[p]))
      /\ q < p => Greater(SimilarityScore(chunk_text, texts[p]),
                          SimilarityScore(chunk_text, texts[q]))
ParagraphTexts(paragraphs) == [p \in 1 .. Len(paragraphs) |-> paragraphs[p].text]
SentenceTexts(paragraph) ==
  [j \in 1 .. Len(paragraph.sentences) |-> <<paragraph.sentences[j]>>]
C25_FirstGreatestOverlap ==
  \A d \in DOMAIN citation_metadata :
    \A chunk_text \in CitedTexts :
      LET paragraphs == citation_metadata[d].paragraphs
          first == FirstGreatest(ParagraphTexts(paragraphs),
                                 Overlaps(paragraphs, chunk_text), chunk_text)
      IN  Overlaps(paragraphs, chunk_text) # {}
            => /\ GetCitation(d, chunk_text, "page").page = paragraphs[first].page
               /\ GetCitation(d, chunk_text, "paragraph").paragraph = first
               /\ GetCitation(d, chunk_text, "sentence").paragraph = first
               /\ LET cited == GetCitation(d, chunk_text, "sentence")
                  IN  cited.kind = "sentence"
                        => cited.sentence =
                             FirstGreatest(SentenceTexts(paragraphs[first]),
                                           1 .. Len(paragraphs[first].sentences),
                                           chunk_text)

\* C26: get_citation answers with a citation in every case.  Without an
\* index of the document, or when no paragraph shares a word with
\* chunk_text, the citation is the document-level one.  Otherwise a
\* sentence is named only at sentence granularity, and when no sentence
\* scores above its own paragraph the answer at sentence granularity is the
\* 'Page P, Paragraph Q' form.
NoSentenceAbove(paragraphs, chunk_text) ==
  \A p \in 1 .. Len(paragraphs) :
    \A j \in 1 .. Len(paragraphs[p].sentences) :
      ~Greater(SimilarityScore(chunk_text, <<paragraphs[p].sentences[j]>>),
               SimilarityScore(chunk_text, paragraphs[p].text))
Granularities == {"document", "page", "paragraph", "sentence"}
C26_CitationDegrades ==
  \A d \in DocIds :
    \A chunk_text \in CitedTexts :
      /\ d \notin DOMAIN citation_metadata
           => \A g \in Granularities : GetCitation(d, chunk_text, g).kind = "id"
      /\ d \in DOMAIN citation_metadata
           => LET paragraphs == citation_metadata[d].paragraphs
                  some == Overlaps(paragraphs, chunk_text) # {}
                  cited == GetCitation(d, chunk_text, "sentence")
              IN  /\ GetCitation(d, chunk_text, "document").kind = "title"
                  /\ ~some => \A g \in Granularities :
                                GetCitation(d, chunk_text, g).kind = "title"
                  /\ some => /\ GetCitation(d, chunk_text, "page").kind = "page"
                             /\ GetCitation(d, chunk_text, "paragraph").kind = "paragraph"
                             /\ cited.kind \in {"sentence", "paragraph"}
                             /\ cited.page # None /\ cited.paragraph # None
                             /\ NoSentenceAbove(paragraphs, chunk_text)
                                  => cited.kind = "paragraph"
C26_Witness ==
  /\ DocSeq[1] \in DOMAIN citation_metadata
  /\ \E chunk_text \in CitedTexts :
       /\ Overlaps(citation_metadata[DocSeq[1]].paragraphs, chunk_text) # {}
       /\ NoSentenceAbove(citation_metadata[DocSeq[1]].paragraphs, chunk_text)
       /\ GetCitation(DocSeq[1], chunk_text, "sentence").kind = "paragraph"
  /\ \E chunk_text \in CitedTexts :
       GetCitation(DocSeq[1], chunk_text, "sentence").kind = "sentence"
  /\ \E chunk_text \in CitedTexts :
       GetCitation(DocSeq[1], chunk_text, "paragraph").kind = "title"

\* C27: in every theme either processor returns, no two citations have
\* the same document id and the same citation string.
C27_CitationsDistinct ==
  \A k \in 1 .. Len(run.themes) :
    \A i, j \in 1 .. Len(run.themes[k].citations) :
      i # j => <<run.themes[k].citations[i].document_id,
                 run.themes[k].citations[i].citation>>
               # <<run.themes[k].citations[j].document_id,
                   run.themes[k].citations[j].citation>>

\* C28: a run of identify_themes keeps every theme record stored before
\* it as it was, and stores each theme it returns under an id that no
\* stored theme had; a run of QueryProcessor stores nothing.
C28_PersistedThemesKept ==
  [][theme_runs' = theme_runs + 1
       => /\ \A id \in DOMAIN themes :
               id \in DOMAIN themes' /\ themes'[id] = themes[id]
          /\ Cardinality(DOMAIN themes') =
               Cardinality(DOMAIN themes)
                 + (IF run'.by = "theme" THEN Len(run'.themes) ELSE 0)
          /\ \A k \in 1 .. Len(run'.themes) :
               run'.by = "theme"
                 => /\ run'.themes[k].id \notin DOMAIN themes
                    /\ run'.themes[k].id \in DOMAIN themes']_vars
C28_Witness ==
  /\ theme_runs = MaxThemeRuns
  /\ run.by = "theme"
  /\ run.themes # << >>
  /\ \E id \in DOMAIN themes :
       \A k \in 1 .. Len(run.themes) : run.themes[k].id # id

\* C29: once no call is in flight, the persisted metadata holds the final
\* record of every document that was processed and not deleted.
C29_PersistedHoldsEveryRecord ==
  NothingInFlight =>
    \A d \in documents :
      document[d].status = "processed"
        => d \in DOMAIN metadata_file /\ metadata_file[d] = document[d]

\* C30: as long as no call was cut short by a crash, the index holds at
\* most one entry per chunk id, and between calls the chunk ids in the
\* index are exactly those the registry lists; so a
\* second add_document on a document replaces its entries and a
\* delete_document afterwards leaves no entry of it.
RegisteredIds == UNION {SeqRange(chunk_metadata[d]) : d \in DOMAIN chunk_metadata}
C30_IndexMatchesRegistry ==
  ~crashed =>
    /\ \A e, g \in vector_db : e.chunk_id = g.chunk_id => e = g
    /\ adding.pc = "idle" => {e.chunk_id : e \in vector_db} = RegisteredIds

====
